---- MODULE Spec2Model ----
(***************************************************************************)
(* A model of tredictpy's TredictPy client (src/tredict.py): the OAuth2    *)
(* session held in self._config and written through to the config file,    *)
(* the token operations (request_auth_code, request_user_access_token,     *)
(* is_user_access_token_valid, is_authorised, deregister), the parsing of   *)
(* the authorisation callback (_params_from_path) and the endpoint methods *)
(* (_list_endpoint with its pagination loop, _download_endpoint,           *)
(* _file_download_endpoint, activity_upload, bodyvalues_upload).           *)
(*                                                                         *)
(* The client is single threaded and every method blocks, so one action    *)
(* is one whole method call; only the pagination loop of _list_endpoint    *)
(* is split into one step per GET (pc = "list" while the call is running). *)
(* The remote server, the callback receiver, the clock and the uploaded    *)
(* file are inputs, drawn from small sets.  The variables op, refresh,     *)
(* result, message, http, nreq, user_uuid, cb_params, response, arg,       *)
(* file_type, url, params, pages and link describe the call made last: its *)
(* arguments, its locals, what it received, its outcome, the last HTTP     *)
(* request it issued and how many it issued.                               *)
(*                                                                         *)
(* Every failure of the library is an APIException that differs only in    *)
(* its message; result names the message by the error kind it stands for.  *)
(* "KeyError" and "UnicodeDecodeError" are the Python built-in exceptions  *)
(* that escape where the code indexes a dict with a missing key or decodes *)
(* bytes that are not UTF-8.                                               *)
(***************************************************************************)
EXTENDS Integers, Sequences, FiniteSets, TLC

VARIABLES
    with_personal_access_token, \* self._with_personal_access_token
    config,                     \* self._config (the three session keys)
    file,                       \* content of the config file, FileAbsent if none
    now,                        \* int(time.time())
    code_consumed,              \* the stored auth code was exchanged with HTTP 200
    pc,                         \* "idle", or "list" inside _list_endpoint's loop
    op,                         \* name of the call made last
    refresh,                    \* its refresh argument (FALSE for other calls)
    result,                     \* its outcome
    message,                    \* callback parameters quoted in its error message
    http,                       \* the last HTTP request it issued, or NoRequest
    nreq,                       \* number of HTTP requests it issued
    user_uuid,                  \* request_auth_code's local user_uuid
    cb_params,                  \* what the callback receiver returned to it
    response,                   \* the body of the 200 answer of the token endpoint
    arg,                        \* its other arguments, NoArg if it has none
    file_type,                  \* activity_upload's local file_type
    url,                        \* _list_endpoint's local url
    params,                     \* _list_endpoint's local params
    pages,                      \* _list_endpoint's local pages
    link                        \* continuation link of the page received last

vars == << with_personal_access_token, config, file, now, code_consumed, pc, op,
           refresh, result, message, http, nreq, user_uuid, cb_params, response, arg,
           file_type, url, params, pages, link >>

session == << with_personal_access_token, config, file >>

-----------------------------------------------------------------------------
(* Program constants *)

AUTH_CODE_EXPIRES_IN == 600

RENEWAL_BUFFER == 60

\* the keys of the status-description table
ERROR_CODES == {200, 400, 401, 403, 404, 429, 500, 503}

-----------------------------------------------------------------------------
(* Bounds and input sets *)

\* the clock stops advancing here
MaxTime == 240

\* GET requests one _list_endpoint call may issue in the model
MaxRequests == 3

\* how far one step of the clock advances it
TickSteps == {60}

Codes == {"c1"}

Uuids == {"u1", "u2"}

AccessTokens == {"a1", "a2"}

RefreshTokens == {"r1", "r2"}

ExpiresIn == {120}

\* statuses the remote server answers with; 418 is not in ERROR_CODES
ServerStatuses == {200, 403, 418}

\* continuation links a page may carry
Links == {"L1"}

\* first 12 bytes of an uploaded file, by kind: bytes 8-11 are ".FIT"; the
\* buffer starts with "<?xml"; other text; bytes 8-11 are not UTF-8
FileHeads == {"fit", "xml", "text", "binary"}

\* Python's None, for a dict-valued and for a string-valued entry
None == [none |-> TRUE]

NoneStr == "None"

\* page_size arguments tried on activity_list
PageSizes == {49, 50, 1000, 1001}

\* start_date arguments tried on activity_list
StartDates == {NoneStr, "d1"}

\* sport_type arguments tried; 'rowing' is not a sport type of the API
SportTypeArgs == {NoneStr, "running", "rowing"}

\* language arguments tried; 'fr' is not a language of the API
LanguageArgs == {"en", "fr"}

\* endpoint and file_type arguments tried on _file_download_endpoint
FileEndpoints == {"plannedTraining", "activity"}

FileTypeArgs == {NoneStr, "json", "fit", "pdf"}

NoRequest == [method |-> "none"]

FileAbsent == [absent |-> TRUE]

\* the callback receiver was not invoked
NoParams == [none |-> TRUE]

\* no 200 answer of the token endpoint was read
NoResponse == [none |-> TRUE]

\* the call has no argument besides refresh
NoArg == [none |-> TRUE]

\* the query parameters _list_endpoint is called with where its caller is
\* not modelled
SomeParams == [query |-> "q"]

-----------------------------------------------------------------------------
(* Inputs *)

\* longest callback path parsed
MaxPathLen == 7

\* the characters of a callback path
PathChars == {"?", "&", "=", "a", "b"}

\* the paths handed to _params_from_path, as sequences of characters
Paths == UNION {[1..n -> PathChars] : n \in 0..MaxPathLen}

\* what the callback receiver can return: a success redirect carries code and
\* possibly state, an error redirect carries error
CallbackParams ==
    [code : Codes, state : Uuids \cup {NoneStr}, error : {NoneStr}]
        \cup [code : {NoneStr}, state : Uuids \cup {NoneStr}, error : {"denied"}]

\* body of a 200 answer of the token endpoint; refresh_token may be missing
TokenResponses ==
    [access_token : AccessTokens, refresh_token : RefreshTokens \cup {NoneStr},
     expires_in : ExpiresIn]

\* the items the server embeds in the page at a URL
PageItems(u) ==
    IF u \in Links THEN << 3, 4 >> ELSE << 1, 2 >>

-----------------------------------------------------------------------------
(* Initial state: __init__ and _load_config *)

EmptyConfig ==
    [auth_code |-> None, user_access_token |-> None, personal_access_token |-> NoneStr]

\* config files an earlier run may have left behind; the clock starts at 0, so
\* the authorisation code of the third was stored 540 s before this run and
\* runs out 60 s into it
LoadedConfigs ==
    { EmptyConfig,
      [EmptyConfig EXCEPT !.personal_access_token = "p1"],
      [EmptyConfig EXCEPT !.auth_code =
          [code |-> "c1", state |-> "u1", expires_on |-> 60]],
      [EmptyConfig EXCEPT !.user_access_token =
          [access_token |-> "a1", refresh_token |-> "r1", expires_on |-> 120]] }

Init ==
    /\ with_personal_access_token \in BOOLEAN
    /\ \/ config = EmptyConfig /\ file = FileAbsent
       \/ config \in LoadedConfigs /\ file = config
    /\ now = 0
    /\ code_consumed = FALSE
    /\ pc = "idle"
    /\ op = "init"
    /\ refresh = FALSE
    /\ result = "ok"
    /\ http = NoRequest
    /\ nreq = 0
    /\ user_uuid = NoneStr
    /\ cb_params = NoParams
    /\ message = NoParams
    /\ response = NoResponse
    /\ arg = NoArg
    /\ file_type = NoneStr
    /\ url = NoneStr
    /\ params = None
    /\ pages = << >>
    /\ link = NoneStr

-----------------------------------------------------------------------------
(* Helpers *)

\* self._config.update(d): the keys of d replace those of the config
save_config(cfg, d) ==
    [k \in DOMAIN cfg |-> IF k \in DOMAIN d THEN d[k] ELSE cfg[k]]

\* the failure raised for a non-200 status: the message looks the status up
\* in ERROR_CODES, which raises KeyError for a status that is not a key
remote_failure(status) ==
    IF status \in ERROR_CODES THEN "RemoteError" ELSE "KeyError"

\* token_valid without the renewal buffer
token_valid_no_buffer(cfg, t) ==
    /\ cfg.user_access_token # None
    /\ cfg.user_access_token.expires_on > t

\* the condition of is_user_access_token_valid in application mode
token_valid(cfg, t) ==
    /\ cfg.user_access_token # None
    /\ cfg.user_access_token.expires_on > t - RENEWAL_BUFFER

\* is_user_access_token_valid_result without the check of the mode
is_user_access_token_valid_result_any_mode(wp, cfg, t) ==
    IF token_valid(cfg, t) THEN "True" ELSE "False"

\* is_user_access_token_valid(): its return value or the failure it raises
is_user_access_token_valid_result(wp, cfg, t) ==
    IF wp THEN "ConfigurationError"
    ELSE IF token_valid(cfg, t) THEN "True" ELSE "False"

\* the credential check that opens every endpoint operation
credential_check(wp, cfg, t) ==
    IF cfg.personal_access_token # NoneStr THEN "pass"
    ELSE IF is_user_access_token_valid_result(wp, cfg, t) = "ConfigurationError"
         THEN "ConfigurationError"
    ELSE IF is_user_access_token_valid_result(wp, cfg, t) = "False"
         THEN "NotAuthenticated"
    ELSE "pass"

\* the bearer token of an endpoint request
bearer_token(cfg) ==
    IF cfg.personal_access_token # NoneStr THEN cfg.personal_access_token
    ELSE cfg.user_access_token.access_token

\* a call that is over: its arguments and outcome, no list locals
Outcome(o, rf, res, req, n, ft) ==
    /\ pc' = "idle"
    /\ op' = o
    /\ refresh' = rf
    /\ result' = res
    /\ http' = req
    /\ nreq' = n
    /\ file_type' = ft
    /\ url' = NoneStr
    /\ params' = None
    /\ pages' = << >>
    /\ link' = NoneStr

\* a call with arguments a that is over and neither invoked the callback
\* receiver nor read a token response
ReturnedWith(o, rf, res, req, n, ft, a) ==
    /\ Outcome(o, rf, res, req, n, ft)
    /\ user_uuid' = NoneStr
    /\ cb_params' = NoParams
    /\ message' = NoParams
    /\ response' = NoResponse
    /\ arg' = a

\* the same for a call with no argument besides refresh
Returned(o, rf, res, req, n, ft) == ReturnedWith(o, rf, res, req, n, ft, NoArg)

\* written_config with the file left as it was
written_config_not_written(cfg, old) == old

\* the file after _save_config wrote the config cfg to it: json.dumps of the
\* whole config, a dict of None, strings, ints and dicts of those, which reads
\* back as the same config
written_config(cfg, old) == cfg

Request(m, u, p, b, c, r, s) ==
    [method |-> m, url |-> u, params |-> p, bearer |-> b, code |-> c,
     refresh_token |-> r, status |-> s]

-----------------------------------------------------------------------------
(* The clock *)

tick ==
    /\ pc = "idle"
    /\ \E d \in TickSteps :
        /\ now + d <= MaxTime
        /\ now' = now + d
    /\ Returned("tick", FALSE, "ok", NoRequest, 0, NoneStr)
    /\ UNCHANGED << session, code_consumed >>

-----------------------------------------------------------------------------
(* Authorisation code *)

\* auth_code_outcome without the comparison of the states
auth_code_outcome_any_state(cb, uu) ==
    IF cb.code # NoneStr THEN "ok" ELSE "AuthorizationDenied"

\* the three branches that follow the callback in request_auth_code;
\* params["state"] raises KeyError when the callback carries no state
auth_code_outcome(cb, uu) ==
    IF cb.code # NoneStr /\ cb.state = NoneStr THEN "KeyError"
    ELSE IF cb.code # NoneStr /\ cb.state = uu THEN "ok"
    ELSE IF cb.code # NoneStr /\ cb.state # uu THEN "StateMismatch"
    ELSE "AuthorizationDenied"

\* params | {"expires_on": int(time.time() + AUTH_CODE_EXPIRES_IN)}
new_auth_code(cb, t) ==
    [code |-> cb.code, state |-> cb.state,
     expires_on |-> t + AUTH_CODE_EXPIRES_IN]

\* denial_message without the callback parameters
denial_message_bare(cb) == NoParams

\* what the message of the authorisation-failed error quotes: json.dumps of
\* the callback parameters
denial_message(cb) == cb

request_auth_code ==
    /\ pc = "idle"
    /\ IF with_personal_access_token
       THEN /\ Returned("request_auth_code", FALSE, "ConfigurationError",
                        NoRequest, 0, NoneStr)
            /\ UNCHANGED << session, now, code_consumed >>
       ELSE \E uu \in Uuids, cb \in CallbackParams :
            /\ Outcome("request_auth_code", FALSE, auth_code_outcome(cb, uu),
                       NoRequest, 0, NoneStr)
            /\ user_uuid' = uu
            /\ cb_params' = cb
            /\ message' = IF auth_code_outcome(cb, uu) = "AuthorizationDenied"
                           THEN denial_message(cb) ELSE NoParams
            /\ response' = NoResponse
            /\ arg' = NoArg
            /\ IF auth_code_outcome(cb, uu) = "ok"
               THEN /\ config' = save_config(config,
                                    [auth_code |-> new_auth_code(cb, now)])
                    /\ file' = written_config(config', file)
                    /\ code_consumed' = FALSE
               ELSE UNCHANGED << config, file, code_consumed >>
            /\ UNCHANGED << with_personal_access_token, now >>

-----------------------------------------------------------------------------
(* User access token *)

\* token_precondition with a refresh admitted only for a valid token
token_precondition_valid_to_refresh(wp, cfg, t, rf) ==
    IF wp THEN "ConfigurationError"
    ELSE IF ~rf /\ cfg.auth_code = None THEN "NoCode"
    ELSE IF ~rf /\ cfg.auth_code.expires_on <= t - RENEWAL_BUFFER THEN "CodeExpired"
    ELSE IF rf /\ ~token_valid(cfg, t) THEN "NoTokenToRefresh"
    ELSE "pass"

\* token_precondition with the mode checked after the stored code and token
token_precondition_mode_last(wp, cfg, t, rf) ==
    IF ~rf /\ cfg.auth_code = None THEN "NoCode"
    ELSE IF ~rf /\ cfg.auth_code.expires_on <= t - RENEWAL_BUFFER THEN "CodeExpired"
    ELSE IF rf /\ cfg.user_access_token = None THEN "NoTokenToRefresh"
    ELSE IF wp THEN "ConfigurationError"
    ELSE "pass"

\* the precondition checks of request_user_access_token, in the code's order
token_precondition(wp, cfg, t, rf) ==
    IF wp THEN "ConfigurationError"
    ELSE IF ~rf /\ cfg.auth_code = None THEN "NoCode"
    ELSE IF ~rf /\ cfg.auth_code.expires_on <= t - RENEWAL_BUFFER THEN "CodeExpired"
    ELSE IF rf /\ cfg.user_access_token = None THEN "NoTokenToRefresh"
    ELSE "pass"

\* the form data of the token request
token_data(cfg, rf) ==
    [grant_type |-> IF rf THEN "refresh_token" ELSE "authorization_code",
     code |-> IF rf THEN NoneStr ELSE cfg.auth_code.code,
     refresh_token |-> IF rf THEN cfg.user_access_token.refresh_token ELSE NoneStr]

\* new_user_access_token with expires_on not counted from the clock
new_user_access_token_ttl_only(resp, data, t, rf) ==
    [access_token |-> resp.access_token,
     refresh_token |-> IF rf THEN data.refresh_token ELSE resp.refresh_token,
     expires_on |-> resp.expires_in]

\* the token stored on HTTP 200: the response with expires_on added and, on a
\* refresh, refresh_token set to the one that was sent
new_user_access_token(resp, data, t, rf) ==
    [access_token |-> resp.access_token,
     refresh_token |-> IF rf THEN data.refresh_token ELSE resp.refresh_token,
     expires_on |-> t + resp.expires_in]

\* config_after_token with the answer stored whatever its status
config_after_token_any_status(cfg, status, resp, t, rf) ==
    save_config(cfg, [user_access_token |->
                         new_user_access_token(resp, token_data(cfg, rf), t, rf)])

\* the config after the token endpoint answered
config_after_token(cfg, status, resp, t, rf) ==
    IF status = 200
    THEN save_config(cfg, [user_access_token |->
                              new_user_access_token(resp, token_data(cfg, rf), t, rf)])
    ELSE cfg

request_user_access_token ==
    /\ pc = "idle"
    /\ \E rf \in BOOLEAN :
        IF token_precondition(with_personal_access_token, config, now, rf) # "pass"
        THEN /\ Returned("request_user_access_token", rf,
                         token_precondition(with_personal_access_token, config, now, rf),
                         NoRequest, 0, NoneStr)
             /\ UNCHANGED << session, now, code_consumed >>
        ELSE \E status \in ServerStatuses, resp \in TokenResponses :
             \* the answer to an exchange carries a refresh token, and only a
             \* 200 answer is read
             /\ (~rf /\ status = 200) => resp.refresh_token # NoneStr
             /\ status # 200 => resp = CHOOSE r \in TokenResponses : TRUE
             /\ Outcome("request_user_access_token", rf,
                        IF status = 200 THEN "ok" ELSE remote_failure(status),
                        Request("POST", "TOKEN_URL", None, NoneStr,
                                token_data(config, rf).code,
                                token_data(config, rf).refresh_token, status),
                        1, NoneStr)
             /\ user_uuid' = NoneStr
             /\ cb_params' = NoParams
             /\ message' = NoParams
             /\ response' = IF status = 200 THEN resp ELSE NoResponse
             /\ arg' = NoArg
             /\ config' = config_after_token(config, status, resp, now, rf)
             /\ file' = IF status = 200 THEN written_config(config', file) ELSE file
             /\ code_consumed' = IF status = 200 /\ ~rf THEN TRUE ELSE code_consumed
             /\ UNCHANGED << with_personal_access_token, now >>

is_user_access_token_valid ==
    /\ pc = "idle"
    /\ Returned("is_user_access_token_valid", FALSE,
                is_user_access_token_valid_result(with_personal_access_token, config, now),
                NoRequest, 0, NoneStr)
    /\ UNCHANGED << session, now, code_consumed >>

\* is_authorised(): its return value or the failure it raises; False unless
\* auth_code, user_access_token and personal_access_token are all set
is_authorised_result(wp, cfg) ==
    IF wp THEN "ConfigurationError"
    ELSE IF \/ cfg.auth_code = None
            \/ cfg.user_access_token = None
            \/ cfg.personal_access_token = NoneStr
         THEN "False"
    ELSE "True"

is_authorised ==
    /\ pc = "idle"
    /\ Returned("is_authorised", FALSE,
                is_authorised_result(with_personal_access_token, config),
                NoRequest, 0, NoneStr)
    /\ UNCHANGED << session, now, code_consumed >>

\* the checks that precede deregister's request
deregister_precondition(wp, cfg, t) ==
    IF wp THEN "ConfigurationError"
    ELSE IF is_user_access_token_valid_result(wp, cfg, t) # "True" THEN "NotAuthenticated"
    ELSE "pass"

\* config_after_deregister with the authorisation code kept
config_after_deregister_token_only(cfg, status) ==
    IF status = 200 THEN save_config(cfg, [user_access_token |-> None]) ELSE cfg

\* the config after the revoke endpoint answered
config_after_deregister(cfg, status) ==
    IF status = 200
    THEN save_config(cfg, [user_access_token |-> None, auth_code |-> None])
    ELSE cfg

deregister ==
    /\ pc = "idle"
    /\ IF deregister_precondition(with_personal_access_token, config, now) # "pass"
       THEN /\ Returned("deregister", FALSE,
                        deregister_precondition(with_personal_access_token, config, now),
                        NoRequest, 0, NoneStr)
            /\ UNCHANGED << session, now, code_consumed >>
       ELSE \E status \in ServerStatuses :
            /\ Returned("deregister", FALSE,
                        IF status = 200 THEN "ok" ELSE remote_failure(status),
                        Request("DELETE", "TOKEN_URL", None,
                                config.user_access_token.access_token,
                                NoneStr, NoneStr, status),
                        1, NoneStr)
            /\ config' = config_after_deregister(config, status)
            /\ file' = IF status = 200 THEN written_config(config', file) ELSE file
            /\ code_consumed' = IF status = 200 THEN FALSE ELSE code_consumed
            /\ UNCHANGED << with_personal_access_token, now >>

-----------------------------------------------------------------------------
(* Endpoint operations *)

\* _list_endpoint(endpoint, p), called by o with arguments a, up to its loop:
\* the credential check and the locals
list_call(o, endpoint, p, a) ==
    /\ pc = "idle"
    /\ IF credential_check(with_personal_access_token, config, now) # "pass"
       THEN ReturnedWith(o, FALSE,
                         credential_check(with_personal_access_token, config, now),
                         NoRequest, 0, NoneStr, a)
       ELSE /\ pc' = "list"
            /\ op' = o
            /\ refresh' = FALSE
            /\ result' = "running"
            /\ http' = NoRequest
            /\ nreq' = 0
            /\ user_uuid' = NoneStr
            /\ cb_params' = NoParams
            /\ message' = NoParams
            /\ response' = NoResponse
            /\ arg' = a
            /\ file_type' = NoneStr
            /\ url' = endpoint
            /\ params' = p
            /\ pages' = << >>
            /\ link' = NoneStr
    /\ UNCHANGED << session, now, code_consumed >>

list_endpoint == list_call("_list_endpoint", "ENDPOINT", SomeParams, NoArg)

\* extend with the items put in front
extend_in_front(ps, items) == items \o ps

\* pages.extend(the embedded items)
extend(ps, items) == ps \o items

\* followed_params with the parameters sent again
followed_params_kept(p) == p

\* the url and params of the next GET after a page that carries the link next
followed_url(u, next) == next

followed_params(p) == None

\* one pass of the while loop of _list_endpoint: a GET and what follows it
list_endpoint_get ==
    /\ pc = "list"
    /\ nreq < MaxRequests
    /\ \E status \in ServerStatuses, next \in Links \cup {NoneStr} :
        /\ http' = Request("GET", url, params, bearer_token(config),
                           NoneStr, NoneStr, status)
        /\ nreq' = nreq + 1
        /\ IF status = 200
           THEN /\ pages' = extend(pages, PageItems(url))
                /\ link' = next
                /\ IF next = NoneStr
                   THEN /\ pc' = "idle"
                        /\ result' = "ok"
                        /\ UNCHANGED << url, params >>
                   ELSE /\ url' = followed_url(url, next)
                        /\ params' = followed_params(params)
                        /\ UNCHANGED << pc, result >>
           ELSE /\ pc' = "idle"
                /\ result' = remote_failure(status)
                /\ link' = NoneStr
                /\ UNCHANGED << url, params, pages >>
    /\ UNCHANGED << session, now, code_consumed, op, refresh, message, user_uuid,
                    cb_params,
                    response, arg, file_type >>

\* single_request with the stored token dropped when the request fails
single_request_dropping_token(o, m, u, p, ft, a) ==
    /\ pc = "idle"
    /\ IF credential_check(with_personal_access_token, config, now) # "pass"
       THEN /\ ReturnedWith(o, FALSE,
                            credential_check(with_personal_access_token, config, now),
                            NoRequest, 0, NoneStr, a)
            /\ UNCHANGED << config, file >>
       ELSE \E status \in ServerStatuses :
            /\ ReturnedWith(o, FALSE,
                            IF status = 200 THEN "ok" ELSE remote_failure(status),
                            Request(m, u, p, bearer_token(config), NoneStr, NoneStr,
                                    status),
                            1, ft, a)
            /\ config' = IF status = 200 THEN config
                         ELSE save_config(config, [user_access_token |-> None])
            /\ file' = IF status = 200 THEN file ELSE written_config(config', file)
    /\ UNCHANGED << with_personal_access_token, now, code_consumed >>

\* an endpoint operation o with arguments a that issues one request: the
\* credential check, the request and the outcome by status
single_request(o, m, u, p, ft, a) ==
    /\ pc = "idle"
    /\ IF credential_check(with_personal_access_token, config, now) # "pass"
       THEN ReturnedWith(o, FALSE,
                         credential_check(with_personal_access_token, config, now),
                         NoRequest, 0, NoneStr, a)
       ELSE \E status \in ServerStatuses :
            ReturnedWith(o, FALSE, IF status = 200 THEN "ok" ELSE remote_failure(status),
                         Request(m, u, p, bearer_token(config), NoneStr, NoneStr, status),
                         1, ft, a)
    /\ UNCHANGED << session, now, code_consumed >>

download_endpoint ==
    single_request("_download_endpoint", "GET", "ENDPOINT", None, NoneStr, NoArg)

\* the url of _file_download_endpoint(endpoint, id, file_type=ft)
file_url(endpoint, ft) ==
    IF ft # NoneStr THEN endpoint \o "/file/" \o ft \o "/id"
    ELSE endpoint \o "/file/id"

\* _file_download_endpoint(endpoint, id, p, ft): where the file type is not
\* 'json' or 'fit' or is given for 'activity', an APIException is built but
\* not raised, and the request goes out as for any other call
file_download_call(o, endpoint, p, ft, a) ==
    single_request(o, "GET", file_url(endpoint, ft), p, NoneStr, a)

file_download_endpoint ==
    file_download_call("_file_download_endpoint", "plannedTraining", None, "fit", NoArg)

bodyvalues_upload ==
    single_request("bodyvalues_upload", "POST", "bodyvalues", None, NoneStr, NoArg)

\* the classification of the first 12 bytes in activity_upload: bytes 8-11
\* decoded and compared with ".FIT", then the bytes compared with the str
\* "<?xml", which are never equal; where neither holds an APIException is
\* built but not raised and file_type stays unset
sniffed_file_type(head) ==
    IF head = "binary" THEN "UnicodeDecodeError"
    ELSE IF head = "fit" THEN ".fit"
    ELSE NoneStr

activity_upload ==
    \E head \in FileHeads :
        IF credential_check(with_personal_access_token, config, now) = "pass"
               /\ sniffed_file_type(head) = "UnicodeDecodeError"
        THEN /\ pc = "idle"
             /\ ReturnedWith("activity_upload", FALSE, "UnicodeDecodeError",
                             NoRequest, 0, NoneStr, [head |-> head])
             /\ UNCHANGED << session, now, code_consumed >>
        ELSE single_request("activity_upload", "POST", "activity/upload", None,
                            sniffed_file_type(head), [head |-> head])

-----------------------------------------------------------------------------
(* The public endpoint methods and their argument checks *)

\* the lower limit of page_size, rejected below it
page_size_below(n) == n < 50

\* page_size_above with the limit itself rejected
page_size_above_or_at(n) == n >= 1000

\* the upper limit of page_size, rejected above it
page_size_above(n) == n > 1000

\* start_date.astimezone(timezone.utc).isoformat() if start_date else None
utc_isoformat(d) == IF d = NoneStr THEN NoneStr ELSE "utc:" \o d

activity_list ==
    \E sd \in StartDates, n \in PageSizes :
        IF page_size_below(n) \/ page_size_above(n)
        THEN /\ pc = "idle"
             /\ ReturnedWith("activity_list", FALSE, "ValidationError", NoRequest, 0,
                             NoneStr, [start_date |-> sd, page_size |-> n])
             /\ UNCHANGED << session, now, code_consumed >>
        ELSE list_call("activity_list", "activityList",
                       [startDate |-> utc_isoformat(sd), pageSize |-> n],
                       [start_date |-> sd, page_size |-> n])

\* the check of sport_type in planned_training_list, capacity_download and
\* zones_download: for a value outside the list an APIException is built
\* and dropped, not raised, so the check passes either way
sport_type_check(st) ==
    IF st \notin {"running", "cycling", "swimming", "misc"} THEN "pass" ELSE "pass"

\* the check of language in planned_training_download, built and dropped too
language_check(l) ==
    IF l \notin {"en", "de"} THEN "pass" ELSE "pass"

\* the check of file_type in _file_download_endpoint, built and dropped too
file_type_check(endpoint, ft) ==
    IF ft # NoneStr /\ (ft \notin {"json", "fit"} \/ endpoint = "activity")
    THEN "pass" ELSE "pass"

\* a call o refused by an argument check
Refused(o, res, a) ==
    /\ pc = "idle"
    /\ ReturnedWith(o, FALSE, res, NoRequest, 0, NoneStr, a)
    /\ UNCHANGED << session, now, code_consumed >>

planned_training_list ==
    \E st \in SportTypeArgs :
        IF sport_type_check(st) # "pass"
        THEN Refused("planned_training_list", sport_type_check(st), [sport_type |-> st])
        ELSE list_call("planned_training_list", "plannedTrainingList",
                       [startDate |-> NoneStr, endDate |-> NoneStr, sportType |-> st],
                       [sport_type |-> st])

\* capacity_download and zones_download: the check, then _download_endpoint
sport_download(o, endpoint) ==
    \E st \in SportTypeArgs :
        IF sport_type_check(st) # "pass"
        THEN Refused(o, sport_type_check(st), [sport_type |-> st])
        ELSE single_request(o, "GET", endpoint, [sportType |-> st], NoneStr,
                            [sport_type |-> st])

capacity_download == sport_download("capacity_download", "capacity")

zones_download == sport_download("zones_download", "zones")

planned_training_download ==
    \E l \in LanguageArgs, extra \in BOOLEAN :
        IF language_check(l) # "pass"
        THEN Refused("planned_training_download", language_check(l),
                     [language |-> l, extra_values |-> extra])
        ELSE file_download_call("planned_training_download", "plannedTraining",
                                [language |-> l, extraValues |-> IF extra THEN 1 ELSE 0],
                                "json", [language |-> l, extra_values |-> extra])

\* _file_download_endpoint with any endpoint and file_type
file_download_typed ==
    \E e \in FileEndpoints, ft \in FileTypeArgs :
        IF credential_check(with_personal_access_token, config, now) = "pass"
               /\ file_type_check(e, ft) # "pass"
        THEN Refused("_file_download_endpoint", file_type_check(e, ft),
                     [endpoint |-> e, file_type |-> ft])
        ELSE file_download_call("_file_download_endpoint", e, None, ft,
                                [endpoint |-> e, file_type |-> ft])

-----------------------------------------------------------------------------
(* Parsing of the callback path *)

\* str.index: the place of the first c in s, 0 where Python raises ValueError
index(s, c) ==
    IF \E i \in 1..Len(s) : s[i] = c
    THEN CHOOSE i \in 1..Len(s) : s[i] = c /\ \A j \in 1..(i - 1) : s[j] # c
    ELSE 0

\* str.split(sep): the pieces of s between every two occurrences of sep
RECURSIVE split(_, _)
split(s, sep) ==
    IF index(s, sep) = 0 THEN << s >>
    ELSE << SubSeq(s, 1, index(s, sep) - 1) >>
             \o split(SubSeq(s, index(s, sep) + 1, Len(s)), sep)

\* dict(list of tuples) raises ValueError unless every tuple has length 2
dict_raises(tuples) == \E i \in 1..Len(tuples) : Len(tuples[i]) # 2

\* dict(list of tuples of length 2): a key given twice keeps the value given
\* last
dict(tuples) ==
    [k \in {tuples[i][1] : i \in 1..Len(tuples)} |->
        tuples[CHOOSE i \in 1..Len(tuples) :
                   /\ tuples[i][1] = k
                   /\ \A j \in (i + 1)..Len(tuples) : tuples[j][1] # k][2]]

\* the tuples _params_from_path builds: p.split("=") of every piece of the
\* query string split at "&"
path_tuples(path) ==
    [i \in 1..Len(split(SubSeq(path, index(path, "?") + 1, Len(path)), "&")) |->
        split(split(SubSeq(path, index(path, "?") + 1, Len(path)), "&")[i], "=")]

\* _params_from_path(path) raises ValueError, from path.index where the path
\* has no "?" or from dict
params_from_path_raises(path) ==
    index(path, "?") = 0 \/ dict_raises(path_tuples(path))

\* _params_from_path(path) where it returns
params_from_path(path) == dict(path_tuples(path))

\* _callback_headless with the pasted URL arg.path: _params_from_path of it
callback_headless ==
    /\ pc = "idle"
    /\ op = "init"
    /\ Outcome("_callback_headless", FALSE,
               IF params_from_path_raises(arg.path) THEN "ValueError" ELSE "ok",
               NoRequest, 0, NoneStr)
    /\ cb_params' = IF params_from_path_raises(arg.path) THEN NoParams
                    ELSE params_from_path(arg.path)
    /\ message' = NoParams
    /\ user_uuid' = NoneStr
    /\ response' = NoResponse
    /\ UNCHANGED << session, now, code_consumed, arg >>

-----------------------------------------------------------------------------
(* Specification *)

Next ==
    \/ tick
    \/ request_auth_code
    \/ request_user_access_token
    \/ is_user_access_token_valid
    \/ is_authorised
    \/ deregister
    \/ list_endpoint
    \/ list_endpoint_get
    \/ download_endpoint
    \/ file_download_endpoint
    \/ activity_upload
    \/ bodyvalues_upload

Spec == Init /\ [][Next]_vars

\* a fresh client about to parse the callback path arg.path
InitParams ==
    /\ with_personal_access_token = FALSE
    /\ config = EmptyConfig
    /\ file = FileAbsent
    /\ now = 0
    /\ code_consumed = FALSE
    /\ pc = "idle"
    /\ op = "init"
    /\ refresh = FALSE
    /\ result = "ok"
    /\ message = NoParams
    /\ http = NoRequest
    /\ nreq = 0
    /\ user_uuid = NoneStr
    /\ cb_params = NoParams
    /\ response = NoResponse
    /\ arg \in [path : Paths]
    /\ file_type = NoneStr
    /\ url = NoneStr
    /\ params = None
    /\ pages = << >>
    /\ link = NoneStr

NextParams == callback_headless

SpecParams == InitParams /\ [][NextParams]_vars

\* the public endpoint methods with their arguments, on the sessions a run
\* starts with
NextEndpoints ==
    \/ tick
    \/ activity_list
    \/ planned_training_list
    \/ list_endpoint_get
    \/ capacity_download
    \/ zones_download
    \/ planned_training_download
    \/ file_download_typed
    \/ activity_upload

SpecEndpoints == Init /\ [][NextEndpoints]_vars

-----------------------------------------------------------------------------
(* Properties *)

TokenCall == "request_user_access_token"

EndpointOps ==
    {"_list_endpoint", "_download_endpoint", "_file_download_endpoint",
     "activity_upload", "bodyvalues_upload"}

\* C1: in application mode, after request_user_access_token(refresh=False)
\* received HTTP 200, the stored authorisation code is cleared, in memory and
\* in the config file.
C1_AuthCodeCleared ==
    (op = TokenCall /\ ~refresh /\ nreq = 1 /\ result = "ok")
        => (config.auth_code = None /\ file.auth_code = None)

\* C2: once the stored authorisation code has been exchanged with HTTP 200,
\* every request_user_access_token(refresh=False) made before a new
\* request_auth_code succeeds fails with 'no code' and issues no HTTP request.
C2_NoReplay ==
    [][(code_consumed /\ op' = TokenCall /\ ~refresh')
           => (result' = "NoCode" /\ nreq' = 0 /\ http' = NoRequest)]_vars

\* C3: when the callback carries a code and a state other than the generated
\* one, request_auth_code fails with the state-mismatch error, the stored
\* authorisation code and user access token stay as they were, in memory and
\* in the file, and no request is made.
C3_StateMismatch ==
    [][(/\ op' = "request_auth_code"
        /\ cb_params' # NoParams
        /\ cb_params'.code # NoneStr
        /\ cb_params'.state # NoneStr
        /\ cb_params'.state # user_uuid')
           => (/\ result' = "StateMismatch"
               /\ config' = config
               /\ file' = file
               /\ nreq' = 0
               /\ http' = NoRequest)]_vars

\* a state-mismatch failure that left a stored authorisation code in place
C3_Witness ==
    /\ op = "request_auth_code"
    /\ result = "StateMismatch"
    /\ cb_params.code # NoneStr
    /\ cb_params.state # user_uuid
    /\ config.auth_code # None

\* the failure C4 expects of request_user_access_token(rf) in a session, "pass"
\* if none: the mode, then the stored code, then its expiry (as the code
\* measures it, RENEWAL_BUFFER past expires_on), then the stored token
C4_Expected(rf) ==
    IF with_personal_access_token THEN "ConfigurationError"
    ELSE IF ~rf /\ config.auth_code = None THEN "NoCode"
    ELSE IF ~rf /\ now - RENEWAL_BUFFER >= config.auth_code.expires_on THEN "CodeExpired"
    ELSE IF rf /\ config.user_access_token = None THEN "NoTokenToRefresh"
    ELSE "pass"

\* C4: request_user_access_token checks the mode, the stored code, the code's
\* expiry and the stored token in this order, each with its own failure, and a
\* failing call issues no HTTP request and leaves the session unchanged.
C4_PreconditionOrder ==
    [][(op' = TokenCall /\ C4_Expected(refresh') # "pass")
           => (/\ result' = C4_Expected(refresh')
               /\ nreq' = 0
               /\ http' = NoRequest
               /\ session' = session)]_vars

\* a refused exchange in personal-access-token mode with no code stored: the
\* first two preconditions fail together and the first one is reported
C4_Witness ==
    /\ op = TokenCall
    /\ ~refresh
    /\ with_personal_access_token
    /\ config.auth_code = None
    /\ result = "ConfigurationError"

\* C5: after a successful refresh the stored refresh_token is the one of the
\* response when the response has one, and the one stored before (the one
\* sent) only when it has none.
C5_RefreshTokenRotated ==
    (op = TokenCall /\ refresh /\ nreq = 1 /\ result = "ok")
        => config.user_access_token.refresh_token =
              IF response.refresh_token # NoneStr THEN response.refresh_token
              ELSE http.refresh_token

\* C6: a token exchange, a refresh or a deregister call answered with a
\* non-200 status fails and leaves user_access_token and auth_code as they
\* were, in memory and in the file.
C6_FailureKeepsSession ==
    [][(op' \in {TokenCall, "deregister"} /\ nreq' = 1 /\ http'.status # 200)
           => (/\ result' # "ok"
               /\ config' = config
               /\ file' = file)]_vars

\* a refresh answered 403 while a token and a code are stored
C6_Witness ==
    /\ op = TokenCall
    /\ refresh
    /\ nreq = 1
    /\ http.status = 403
    /\ result = "RemoteError"
    /\ config.user_access_token # None
    /\ config.auth_code # None

\* C7: whatever non-200 status the server answers, a network operation fails
\* with the library's remote error.
C7_RemoteErrorForEveryStatus ==
    (pc = "idle" /\ nreq >= 1 /\ http.status # 200) => result = "RemoteError"

\* C8: in application mode is_user_access_token_valid() returns True iff a
\* token is stored whose expires_on > now - RENEWAL_BUFFER, False when none is
\* stored, and leaves the session unchanged.
C8_ValidIffNotPastBuffer ==
    [][(op' = "is_user_access_token_valid" /\ ~with_personal_access_token)
           => (/\ result' \in {"True", "False"}
               /\ result' = "True" <=>
                     (/\ config.user_access_token # None
                      /\ config.user_access_token.expires_on > now - RENEWAL_BUFFER)
               /\ session' = session)]_vars

\* a token found valid after its expires_on, inside the buffer
C8_Witness ==
    /\ op = "is_user_access_token_valid"
    /\ ~with_personal_access_token
    /\ result = "True"
    /\ config.user_access_token # None
    /\ now >= config.user_access_token.expires_on

\* C9: is_user_access_token_valid() returns False when
\* now >= expires_on - RENEWAL_BUFFER and True otherwise.
C9_InvalidFromBufferBeforeExpiry ==
    (/\ op = "is_user_access_token_valid"
     /\ ~with_personal_access_token
     /\ config.user_access_token # None)
        => (result = "False" <=>
                now >= config.user_access_token.expires_on - RENEWAL_BUFFER)

\* C10: in both modes an endpoint operation called with no personal access
\* token configured and no valid user access token stored fails with the
\* not-authenticated error and issues no HTTP request.
C10_NotAuthenticated ==
    (/\ op \in EndpointOps
     /\ config.personal_access_token = NoneStr
     /\ ~token_valid(config, now))
        => (result = "NotAuthenticated" /\ nreq = 0 /\ http = NoRequest)

\* C11: every request of an endpoint operation bears the personal access
\* token if one is configured and otherwise the access_token of the stored
\* user access token, which at that moment has not expired.
C11_BearerOfUnexpiredToken ==
    (op \in EndpointOps /\ http # NoRequest)
        => /\ http.bearer = IF config.personal_access_token # NoneStr
                            THEN config.personal_access_token
                            ELSE config.user_access_token.access_token
           /\ config.personal_access_token = NoneStr
                  => (/\ config.user_access_token # None
                      /\ now < config.user_access_token.expires_on)

\* the stored token is valid in the sense of is_user_access_token_valid()
C12_ValidTokenStored ==
    /\ ~with_personal_access_token
    /\ config.user_access_token # None
    /\ config.user_access_token.expires_on > now - RENEWAL_BUFFER

\* C12: deregister() issues its DELETE only when a valid user access token
\* is stored and otherwise fails without a request; on HTTP 200 it clears the
\* stored token and the stored authorisation code; from then on
\* is_user_access_token_valid() is False, a refresh fails with 'no token to
\* refresh' and an exchange with 'no code', until request_auth_code stores a
\* new code.
C12_DeregisterResetsSession ==
    [][/\ op' = "deregister"
          => /\ C12_ValidTokenStored
                 => (/\ nreq' = 1
                     /\ http'.method = "DELETE"
                     /\ http'.bearer = config.user_access_token.access_token)
             /\ ~C12_ValidTokenStored
                 => (/\ nreq' = 0
                     /\ http' = NoRequest
                     /\ result' \in {"ConfigurationError", "NotAuthenticated"}
                     /\ session' = session)
             /\ (http'.method = "DELETE" /\ http'.status = 200)
                 => (/\ result' = "ok"
                     /\ config'.user_access_token = None
                     /\ config'.auth_code = None
                     /\ file' = config')
       /\ (/\ ~with_personal_access_token
           /\ config.user_access_token = None
           /\ config.auth_code = None)
          => /\ op' = "is_user_access_token_valid" => result' = "False"
             /\ (op' = TokenCall /\ refresh') => result' = "NoTokenToRefresh"
             /\ (op' = TokenCall /\ ~refresh') => result' = "NoCode"
             /\ config'.user_access_token = None
             /\ config'.auth_code # None
                 => (op' = "request_auth_code" /\ result' = "ok")]_vars

\* a deregistration answered 200, the token and the code gone
C12_Witness ==
    /\ op = "deregister"
    /\ result = "ok"
    /\ http.method = "DELETE"
    /\ config.user_access_token = None
    /\ config.auth_code = None
    /\ file = config

\* C13: in personal-access-token mode request_auth_code,
\* request_user_access_token (refresh or not), is_user_access_token_valid and
\* deregister each fail with the configuration error, invoke neither the
\* callback receiver nor an HTTP request, and leave the session unchanged.
C13_ConfigurationErrorInTokenMode ==
    [][(/\ with_personal_access_token
        /\ op' \in {"request_auth_code", TokenCall, "is_user_access_token_valid",
                    "deregister"})
           => (/\ result' = "ConfigurationError"
               /\ user_uuid' = NoneStr
               /\ cb_params' = NoParams
               /\ nreq' = 0
               /\ http' = NoRequest
               /\ session' = session)]_vars

\* is_user_access_token_valid refused in personal-access-token mode although a
\* user access token is stored
C13_Witness ==
    /\ with_personal_access_token
    /\ op = "is_user_access_token_valid"
    /\ result = "ConfigurationError"
    /\ config.user_access_token # None

\* the items of n pages in page order: those of the endpoint's page, then
\* those of each page a continuation link led to
C14_Concatenation(n) ==
    [i \in 1..(2 * n) |-> IF i <= 2 THEN PageItems("ENDPOINT")[i]
                          ELSE PageItems("L1")[2 - (i % 2)]]

\* C14: for a chain of n >= 1 pages all answered 200 of which only the last
\* has no continuation link, _list_endpoint issues exactly n GETs and returns
\* the concatenation of the pages' items in page order and in item order.
C14_PagesConcatenated ==
    (op = "_list_endpoint" /\ result \in {"running", "ok"})
        => /\ pages = C14_Concatenation(nreq)
           /\ result = "ok" => (/\ pc = "idle"
                                /\ nreq >= 1
                                /\ link = NoneStr
                                /\ http.method = "GET")
           /\ result = "running" => (nreq >= 1 => link \in Links)

\* three pages of two items returned as six items
C14_Witness ==
    /\ op = "_list_endpoint"
    /\ result = "ok"
    /\ nreq = 3
    /\ pages = << 1, 2, 3, 4, 3, 4 >>

\* C15: within one _list_endpoint call the first GET uses the endpoint URL
\* with the caller's query parameters, and every later GET uses exactly the
\* continuation link of the preceding page as its URL, with no query
\* parameters.
C15_LinkFollowedWithoutParams ==
    [][(op = "_list_endpoint" /\ pc = "list" /\ nreq' = nreq + 1)
           => /\ http'.method = "GET"
              /\ nreq = 0 => (http'.url = "ENDPOINT" /\ http'.params = SomeParams)
              /\ nreq >= 1 => (/\ link \in Links
                               /\ http'.url = link
                               /\ http'.params = None)]_vars

\* a later GET of a list call, sent to the continuation link
C15_Witness ==
    /\ op = "_list_endpoint"
    /\ nreq >= 2
    /\ http.method = "GET"
    /\ http.url \in Links
    /\ http.params = None

\* C16: the pagination loop of _list_endpoint is bounded: also where every
\* page answered 200 carries a continuation link, the call returns or fails
\* after at most MaxRequests requests.
C16_LoopBounded ==
    pc = "list" => nreq < MaxRequests

\* C17: activity_list rejects every page_size < 50 and every page_size > 1000
\* with a validation error before any credential check or HTTP request, and
\* accepts every page_size from 50 to 1000, passing it on as the pageSize
\* parameter of the first request.
C17_PageSizeValidated ==
    [][/\ (pc = "idle" /\ op' = "activity_list")
          => /\ (arg'.page_size < 50 \/ arg'.page_size > 1000)
                 => (/\ result' = "ValidationError"
                     /\ pc' = "idle"
                     /\ nreq' = 0
                     /\ http' = NoRequest)
             /\ (arg'.page_size >= 50 /\ arg'.page_size <= 1000)
                 => (/\ result' # "ValidationError"
                     /\ result' = "running"
                            <=> credential_check(with_personal_access_token,
                                                 config, now) = "pass")
       /\ (pc = "list" /\ op = "activity_list" /\ nreq = 0 /\ nreq' = 1)
          => /\ http'.method = "GET"
             /\ http'.url = "activityList"
             /\ http'.params.pageSize = arg.page_size]_vars

\* the first request of activity_list(page_size=1000), with pageSize 1000
C17_Witness ==
    /\ op = "activity_list"
    /\ arg.page_size = 1000
    /\ nreq = 1
    /\ http.url = "activityList"
    /\ http.params.pageSize = 1000

\* C18: planned_training_list, capacity_download and zones_download fail for
\* a sport_type outside {running, cycling, swimming, misc},
\* planned_training_download for a language outside {en, de}, and
\* _file_download_endpoint for a file_type outside {json, fit} or one given
\* for the 'activity' endpoint; in each of these cases the call raises an
\* APIException and no HTTP request is issued.
C18_EnumArgumentsValidated ==
    (\/ /\ op \in {"planned_training_list", "capacity_download", "zones_download"}
        /\ arg.sport_type \notin {"running", "cycling", "swimming", "misc"}
     \/ /\ op = "planned_training_download"
        /\ arg.language \notin {"en", "de"}
     \/ /\ op = "_file_download_endpoint"
        /\ arg.file_type # NoneStr
        /\ (arg.file_type \notin {"json", "fit"} \/ arg.endpoint = "activity"))
        => (/\ nreq = 0
            /\ http = NoRequest
            /\ pc = "idle" => result \in {"ValidationError", "NotAuthenticated",
                                           "ConfigurationError"})

\* C19: activity_upload classifies the first 12 bytes of the file: bytes 8-11
\* equal to '.FIT' give FIT, otherwise a buffer starting with '<?xml' gives
\* TCX, and for every other buffer the call fails with the
\* unsupported-file-type error and issues no POST.
C19_UploadSniffing ==
    (/\ op = "activity_upload"
     /\ result \notin {"NotAuthenticated", "ConfigurationError"})
        => /\ arg.head = "fit" => (file_type = ".fit" /\ http.method = "POST")
           /\ arg.head = "xml" => (file_type = ".tcx" /\ http.method = "POST")
           /\ arg.head \in {"text", "binary"}
                  => (/\ result = "UnsupportedFileType"
                      /\ nreq = 0
                      /\ http = NoRequest)

\* C20: whenever request_auth_code, request_user_access_token or deregister
\* has returned successfully the content of the config file equals the config
\* in memory, and no step changes the config in memory without writing it.
C20_WriteThrough ==
    [][/\ (/\ op' \in {"request_auth_code", TokenCall, "deregister"}
           /\ result' = "ok")
          => file' = config'
       /\ config' # config => file' = config']_vars

\* an authorisation code just stored in memory and in the file
C20_Witness ==
    /\ op = "request_auth_code"
    /\ result = "ok"
    /\ config.auth_code # None
    /\ config.auth_code.expires_on = now + AUTH_CODE_EXPIRES_IN
    /\ file = config

\* C21: no endpoint operation (list, object download, file download, activity
\* upload, body-values upload) changes the session: auth_code,
\* user_access_token and personal_access_token in memory and in the config
\* file are the same after the call, whether it succeeds or fails.
C21_EndpointsKeepSession ==
    [][op' \in EndpointOps
           => (/\ config' = config
               /\ file' = file
               /\ with_personal_access_token' = with_personal_access_token)]_vars

\* an endpoint request that failed, the stored token still in place
C21_Witness ==
    /\ op \in EndpointOps
    /\ nreq = 1
    /\ result \notin {"ok", "running"}
    /\ config.user_access_token # None
    /\ file = config

\* C22: a successful request_auth_code stores the callback's code and state
\* with expires_on = now + AUTH_CODE_EXPIRES_IN; a successful
\* request_user_access_token (exchange or refresh) stores the response's
\* access_token with expires_on = now + the response's expires_in; no other
\* operation gives a stored code or token an expires_on it did not have.
C22_ExpiryFixedAtIssuance ==
    [][/\ (op' = "request_auth_code" /\ result' = "ok")
          => /\ config'.auth_code.code = cb_params'.code
             /\ config'.auth_code.state = cb_params'.state
             /\ config'.auth_code.expires_on = now + AUTH_CODE_EXPIRES_IN
       /\ (op' = TokenCall /\ result' = "ok")
          => /\ config'.user_access_token.access_token = response'.access_token
             /\ config'.user_access_token.expires_on = now + response'.expires_in
       /\ (/\ config'.auth_code # None
           /\ \/ config.auth_code = None
              \/ config.auth_code.expires_on # config'.auth_code.expires_on)
          => (op' = "request_auth_code" /\ result' = "ok")
       /\ (/\ config'.user_access_token # None
           /\ \/ config.user_access_token = None
              \/ config.user_access_token.expires_on
                     # config'.user_access_token.expires_on)
          => (op' = TokenCall /\ result' = "ok")
       /\ now' = now \/ config' = config]_vars

\* a token issued after the clock has advanced
C22_Witness ==
    /\ op = TokenCall
    /\ result = "ok"
    /\ now > 0
    /\ config.user_access_token.access_token = response.access_token
    /\ config.user_access_token.expires_on = now + response.expires_in

\* C23: in request_auth_code, when the callback parameters contain no code,
\* the call fails with the authorisation-denied error, whose message carries
\* the raw callback parameters, and the stored authorisation code and user
\* access token are left unchanged.
C23_DeniedKeepsSession ==
    [][(/\ op' = "request_auth_code"
        /\ cb_params' # NoParams
        /\ cb_params'.code = NoneStr)
           => (/\ result' = "AuthorizationDenied"
               /\ message' = cb_params'
               /\ config' = config
               /\ file' = file
               /\ nreq' = 0)]_vars

\* a denied authorisation with an error parameter, a code from an earlier
\* authorisation still stored
C23_Witness ==
    /\ op = "request_auth_code"
    /\ result = "AuthorizationDenied"
    /\ cb_params.error = "denied"
    /\ message = cb_params
    /\ config.auth_code # None

\* C25: in application mode is_authorised() returns True once an
\* authorisation code and a user access token have been obtained and False
\* otherwise, whether or not a personal access token is configured.
C25_AuthorisedIffCodeAndToken ==
    (op = "is_authorised" /\ ~with_personal_access_token)
        => (result = "True"
                <=> (config.auth_code # None /\ config.user_access_token # None))

\* C26: request_user_access_token(refresh=False) is refused with 'code
\* expired' for every now >= auth_code.expires_on; an expired code is never
\* sent to the token endpoint.
C26_ExpiredCodeRefused ==
    (/\ op = TokenCall
     /\ ~refresh
     /\ ~with_personal_access_token
     /\ config.auth_code # None
     /\ now >= config.auth_code.expires_on)
        => (result = "CodeExpired" /\ nreq = 0 /\ http = NoRequest)

\* C27: request_auth_code has exactly three outcomes: it persists the code
\* (code present, state equal to the generated one), fails with the
\* state-mismatch error (code present, state absent or different) or fails
\* with the authorisation-denied error (code absent).
C27_ThreeOutcomes ==
    (op = "request_auth_code" /\ ~with_personal_access_token)
        => /\ result \in {"ok", "StateMismatch", "AuthorizationDenied"}
           /\ result = "ok"
                  <=> (cb_params.code # NoneStr /\ cb_params.state = user_uuid)
           /\ result = "StateMismatch"
                  <=> (cb_params.code # NoneStr /\ cb_params.state # user_uuid)
           /\ result = "AuthorizationDenied" <=> cb_params.code = NoneStr

\* C28: a refresh is admitted whenever a user access token is stored, expired
\* or not, and after an exchange or refresh answered 200 with expires_in > 0
\* is_user_access_token_valid() returns True.
C28_RefreshAdmittedThenValid ==
    [][/\ (/\ op' = TokenCall
           /\ refresh'
           /\ ~with_personal_access_token
           /\ config.user_access_token # None)
          => /\ nreq' = 1
             /\ http'.method = "POST"
             /\ http'.refresh_token = config.user_access_token.refresh_token
             /\ http'.status = 200 => result' = "ok"
       /\ (op' = TokenCall /\ result' = "ok" /\ response'.expires_in > 0)
          => /\ config'.user_access_token # None
             /\ config'.user_access_token.expires_on > now'
             /\ is_user_access_token_valid_result(with_personal_access_token',
                                                  config', now') = "True"
       /\ (/\ op = TokenCall
           /\ result = "ok"
           /\ op' = "is_user_access_token_valid"
           /\ now' = now)
          => result' = "True"]_vars

\* a refresh answered 200 at a time when the token loaded at the start is
\* past its validity, in a session that never held an authorisation code
C28_Witness ==
    /\ op = TokenCall
    /\ refresh
    /\ result = "ok"
    /\ config.auth_code = None
    /\ now >= 120 + RENEWAL_BUFFER
    /\ config.user_access_token.expires_on = now + response.expires_in

\* the part of s before its first "=" and the part after it
C24_Key(s) == SubSeq(s, 1, index(s, "=") - 1)

C24_Value(s) == SubSeq(s, index(s, "=") + 1, Len(s))

\* the pairs k=v of the query string of a path
C24_Pairs(path) == split(SubSeq(path, index(path, "?") + 1, Len(path)), "&")

\* C24: _params_from_path maps the query string '?k1=v1&...&kn=vn' of a path
\* to the mapping {k1: v1, ..., kn: vn}, each pair split at its first '='
\* only, so that a value that contains '=' is kept whole.
C24_SplitAtFirstEquals ==
    (/\ op = "_callback_headless"
     /\ index(arg.path, "?") # 0
     /\ \A i \in 1..Len(C24_Pairs(arg.path)) : index(C24_Pairs(arg.path)[i], "=") # 0)
        => /\ result = "ok"
           /\ DOMAIN cb_params
                  = {C24_Key(C24_Pairs(arg.path)[i]) : i \in 1..Len(C24_Pairs(arg.path))}
           /\ \A i \in 1..Len(C24_Pairs(arg.path)) :
                  (\A j \in (i + 1)..Len(C24_Pairs(arg.path)) :
                       C24_Key(C24_Pairs(arg.path)[j]) # C24_Key(C24_Pairs(arg.path)[i]))
                      => cb_params[C24_Key(C24_Pairs(arg.path)[i])]
                             = C24_Value(C24_Pairs(arg.path)[i])

====
